---- MODULE Spec2Model ----
(***************************************************************************)
(* Study Battle Bot: score store, daily leaderboard, rank-change           *)
(* detection and the ledger of special-message rights.                     *)
(*                                                                         *)
(* Modelled from src/api/database.py (DatabaseManager), src/api/           *)
(* bot_handlers.py (BotHandlers) and src/api/utils.py.                     *)
(*                                                                         *)
(* Conventions                                                             *)
(*  - a table is a function whose DOMAIN is the set of its primary keys;   *)
(*    special_message_rights is a sequence, a row's id being its index     *)
(*    (INTEGER PRIMARY KEY AUTOINCREMENT, rows are never deleted);         *)
(*  - Python None / SQL NULL is NULL for name fields and 0 for positions,  *)
(*    right ids and chat ids (all of which are >= 1 or non-zero);          *)
(*  - a leaderboard row is the tuple <<user_id, display_name, score>>;     *)
(*  - SQLite returns rows with equal ORDER BY keys in scan order, that is  *)
(*    by ascending rowid (user_id, resp. right id).                        *)
(***************************************************************************)
EXTENDS Integers, Sequences, FiniteSets, TLC

\* ------------------------------------------------------------------ bounds
NumUsers == 3
MaxScore == 2
MaxGrants == 1
MaxRights == 2
MaxClock == 1
MaxResets == 1
NumTasks == 2
MaxFailures == 1
MaxCalls == 4
MaxDelta == 2

\* ------------------------------------------------------- program constants
LeaderboardLimit == 10
NULL == "NULL"
None == 0
NoChat == 0
NoRight == 0
NoChange == <<>>
NoOutranked == <<>>

Users == 1..NumUsers
Chats == {100}
Profiles ==
    { [username |-> NULL, first_name |-> "Ann"],
      [username |-> NULL, first_name |-> "Demo User"] }

VARIABLES
    users,             \* table users: user_id -> [username, first_name]
    daily,             \* table daily_stats: user_id -> questions_solved
    lifetime,          \* table lifetime_stats: user_id -> total_questions
    reset_log,         \* number of rows of daily_reset_log
    rights,            \* table special_message_rights, in id order
    now,               \* CURRENT_TIMESTAMP, in seconds
    last_leaderboard,  \* BotHandlers.last_leaderboard
    chat_id,           \* BotHandlers.chat_id
    outbox,            \* broadcasts and confirmations sent by the most recent step
    diff,              \* the snapshots behind the overtake the most recent step sent
    tasks,             \* plain-message handlers in flight
    sends,             \* per right id: attributed broadcasts dispatched
    use_ok,            \* per right id: use_message_right calls returning True
    ret,               \* the most recent direct call, with its result
    failed             \* sends of /solved handlings the dispatcher refused

vars == <<users, daily, lifetime, reset_log, rights, now, last_leaderboard,
          chat_id, outbox, diff, tasks, sends, use_ok, ret, failed>>

\* ------------------------------------------------------------ small helpers
Max(a, b) == IF a >= b THEN a ELSE b

\* variant: no LIMIT
Take_all(s, n) == s

Take(s, n) == IF Len(s) <= n THEN s ELSE SubSeq(s, 1, n)

\* f with key k set to v (inserted when absent): INSERT OR REPLACE
Put(f, k, v) == [x \in DOMAIN f \cup {k} |-> IF x = k THEN v ELSE f[x]]

DB == [users |-> users, daily |-> daily, lifetime |-> lifetime,
       reset_log |-> reset_log, rights |-> rights]

SetDB(d) ==
    /\ users' = d.users
    /\ daily' = d.daily
    /\ lifetime' = d.lifetime
    /\ reset_log' = d.reset_log
    /\ rights' = d.rights

\* --------------------------------------------------------------- utils.py
\* "@" + username, else first_name, else "Unknown User" (a tuple of its parts)
get_user_display_name(p) ==
    IF p.username # NULL THEN <<"@", p.username>>
    ELSE IF p.first_name # NULL THEN <<p.first_name>>
    ELSE <<"Unknown User">>

Digits == {"0", "1", "2", "3"}
DigitVal(c) == CASE c = "0" -> 0 [] c = "1" -> 1 [] c = "2" -> 2 [] c = "3" -> 3

RECURSIVE StripLeft(_)
StripLeft(s) == IF s # <<>> /\ Head(s) = " " THEN StripLeft(Tail(s)) ELSE s

RECURSIVE StripRight(_)
StripRight(s) ==
    IF s # <<>> /\ s[Len(s)] = " " THEN StripRight(SubSeq(s, 1, Len(s) - 1)) ELSE s

RECURSIVE DigitsValue(_, _)
DigitsValue(s, acc) ==
    IF s = <<>> THEN acc ELSE DigitsValue(Tail(s), 10 * acc + DigitVal(Head(s)))

\* parse_number: strip, match ^-?\d+$, int(): <<n>>, or <<>> for None
parse_number(input_str) ==
    LET s == StripRight(StripLeft(input_str))
        neg == s # <<>> /\ Head(s) = "-"
        body == IF neg THEN Tail(s) ELSE s
    IN  IF body # <<>> /\ \A i \in 1..Len(body) : body[i] \in Digits
        THEN (IF neg THEN <<0 - DigitsValue(body, 0)>> ELSE <<DigitsValue(body, 0)>>)
        ELSE <<>>

\* ------------------------------------------------------------- database.py
\* variant: the statistics rows are written anew for a known user too
register_user_afresh(d, user_id, p) ==
    [d EXCEPT !.users = Put(d.users, user_id, p),
              !.daily = Put(d.daily, user_id, 0),
              !.lifetime = Put(d.lifetime, user_id, 0)]

register_user(d, user_id, p) ==
    IF user_id \in DOMAIN d.users
    THEN [d EXCEPT !.users = Put(d.users, user_id, p)]
    ELSE [d EXCEPT !.users = Put(d.users, user_id, p),
                   !.daily = IF user_id \in DOMAIN d.daily THEN d.daily
                             ELSE Put(d.daily, user_id, 0),
                   !.lifetime = IF user_id \in DOMAIN d.lifetime THEN d.lifetime
                                ELSE Put(d.lifetime, user_id, 0)]

\* variant: the daily count is not brought back to 0
NewDaily_raw(d, user_id, questions_count) ==
    (IF user_id \in DOMAIN d.daily THEN d.daily[user_id] ELSE 0) + questions_count

NewDaily(d, user_id, questions_count) ==
    LET added == (IF user_id \in DOMAIN d.daily THEN d.daily[user_id] ELSE 0)
                    + questions_count
    IN  IF added < 0 THEN 0 ELSE added

\* variant: the total is not brought back to 0
NewLifetime_raw(d, user_id, questions_count) ==
    (IF user_id \in DOMAIN d.lifetime THEN d.lifetime[user_id] ELSE 0)
        + questions_count

\* variant: a correction that would make the total negative is dropped
NewLifetime_keep(d, user_id, questions_count) ==
    LET current_lifetime ==
            IF user_id \in DOMAIN d.lifetime THEN d.lifetime[user_id] ELSE 0
    IN  IF current_lifetime + questions_count < 0 THEN current_lifetime
        ELSE current_lifetime + questions_count

NewLifetime(d, user_id, questions_count) ==
    LET current_lifetime ==
            IF user_id \in DOMAIN d.lifetime THEN d.lifetime[user_id] ELSE 0
    IN  Max(0, current_lifetime + questions_count)

\* variant: the SELECT on users is left out
update_solved_questions_upsert(d, user_id, questions_count) ==
    [ok |-> TRUE,
     db |-> [d EXCEPT
               !.daily = Put(d.daily, user_id,
                             NewDaily(d, user_id, questions_count)),
               !.lifetime = Put(d.lifetime, user_id,
                                NewLifetime(d, user_id, questions_count))]]

\* returns [ok, db]
update_solved_questions(d, user_id, questions_count) ==
    IF user_id \notin DOMAIN d.users
    THEN [ok |-> FALSE, db |-> d]
    ELSE [ok |-> TRUE,
          db |-> [d EXCEPT
                    !.daily = Put(d.daily, user_id,
                                  NewDaily(d, user_id, questions_count)),
                    !.lifetime = Put(d.lifetime, user_id,
                                     NewLifetime(d, user_id, questions_count))]]

get_user_stats(d, user_id) ==
    IF user_id \in DOMAIN d.users
    THEN << IF user_id \in DOMAIN d.daily THEN d.daily[user_id] ELSE 0,
            IF user_id \in DOMAIN d.lifetime THEN d.lifetime[user_id] ELSE 0 >>
    ELSE <<0, 0>>

\* variant: the INSERT INTO daily_reset_log is left out
reset_daily_stats_nolog(d) ==
    [d EXCEPT !.daily = [u \in DOMAIN d.daily |-> 0]]

\* variant: the lifetime counts are reset as well
reset_daily_stats_all(d) ==
    [d EXCEPT !.daily = [u \in DOMAIN d.daily |-> 0],
              !.lifetime = [u \in DOMAIN d.lifetime |-> 0],
              !.reset_log = d.reset_log + 1]

reset_daily_stats(d) ==
    [d EXCEPT !.daily = [u \in DOMAIN d.daily |-> 0],
              !.reset_log = d.reset_log + 1]

\* COALESCE(u.username, u.first_name, 'Unknown User')
display_name(p) ==
    IF p.username # NULL THEN p.username
    ELSE IF p.first_name # NULL THEN p.first_name
    ELSE "Unknown User"

\* COALESCE(u.username, u.first_name, '') != 'Demo User'
NotDemoUser(p) ==
    (IF p.username # NULL THEN p.username
     ELSE IF p.first_name # NULL THEN p.first_name
     ELSE "") # "Demo User"

\* rows of (stats JOIN users) passing the WHERE clause
BoardRows(us, stats) ==
    {u \in DOMAIN stats \cap DOMAIN us : stats[u] > 0 /\ NotDemoUser(us[u])}

\* ORDER BY score DESC; equal scores leave the sorter in rowid order
FirstRow(S, stats) ==
    CHOOSE u \in S : \A v \in S :
        stats[u] > stats[v] \/ (stats[u] = stats[v] /\ u <= v)

RECURSIVE OrderRows(_, _)
OrderRows(S, stats) ==
    IF S = {} THEN <<>>
    ELSE LET u == FirstRow(S, stats)
         IN  <<u>> \o OrderRows(S \ {u}, stats)

BoardWithIds(us, stats, limit) ==
    LET ord == Take(OrderRows(BoardRows(us, stats), stats), limit)
    IN  [i \in 1..Len(ord) |-> <<ord[i], display_name(us[ord[i]]), stats[ord[i]]>>]

\* variant: the WHERE clause does not look at the name
BoardNames_nofilter(us, stats, limit) ==
    LET S == {u \in DOMAIN stats \cap DOMAIN us : stats[u] > 0}
        ord == Take(OrderRows(S, stats), limit)
    IN  [i \in 1..Len(ord) |-> <<display_name(us[ord[i]]), stats[ord[i]]>>]

\* the same FROM, WHERE, ORDER BY and LIMIT, selecting display_name and score
BoardNames(us, stats, limit) ==
    LET ord == Take(OrderRows(BoardRows(us, stats), stats), limit)
    IN  [i \in 1..Len(ord) |-> <<display_name(us[ord[i]]), stats[ord[i]]>>]

get_daily_leaderboard_with_ids(d, limit) == BoardWithIds(d.users, d.daily, limit)

get_daily_leaderboard(d, limit) == BoardNames(d.users, d.daily, limit)

get_lifetime_leaderboard(d, limit) == BoardNames(d.users, d.lifetime, limit)

\* 1-based position of the first row of lb carrying uid, None when absent
PositionOf(lb, uid) ==
    IF \E i \in 1..Len(lb) : lb[i][1] = uid
    THEN CHOOSE i \in 1..Len(lb) :
            /\ lb[i][1] = uid
            /\ \A j \in 1..(i - 1) : lb[j][1] # uid
    ELSE None

\* variant: an unchanged position counts as a change
get_user_position_change_lax(user_id, old_leaderboard, new_leaderboard) ==
    LET old_pos == PositionOf(old_leaderboard, user_id)
        new_pos == PositionOf(new_leaderboard, user_id)
    IN  IF old_pos # None /\ new_pos # None /\ new_pos <= old_pos
        THEN <<old_pos, new_pos>>
        ELSE IF old_pos = None /\ new_pos # None
        THEN <<Len(old_leaderboard) + 1, new_pos>>
        ELSE NoChange

\* variant: a new entrant's old position is the old leaderboard's length
get_user_position_change_short(user_id, old_leaderboard, new_leaderboard) ==
    LET old_pos == PositionOf(old_leaderboard, user_id)
        new_pos == PositionOf(new_leaderboard, user_id)
    IN  IF old_pos # None /\ new_pos # None /\ new_pos < old_pos
        THEN <<old_pos, new_pos>>
        ELSE IF old_pos = None /\ new_pos # None
        THEN <<Len(old_leaderboard), new_pos>>
        ELSE NoChange

get_user_position_change(user_id, old_leaderboard, new_leaderboard) ==
    LET old_pos == PositionOf(old_leaderboard, user_id)
        new_pos == PositionOf(new_leaderboard, user_id)
    IN  IF old_pos # None /\ new_pos # None /\ new_pos < old_pos
        THEN <<old_pos, new_pos>>
        ELSE IF old_pos = None /\ new_pos # None
        THEN <<Len(old_leaderboard) + 1, new_pos>>
        ELSE NoChange

\* variant: old_position and new_position are stored the other way round
NewRight_swapped(clock, user_id, outranked_user_id, old_pos, new_pos) ==
    [user_id |-> user_id, outranked_user_id |-> outranked_user_id,
     old_position |-> new_pos, new_position |-> old_pos,
     used |-> FALSE, created_at |-> clock]

\* variant: user_id and outranked_user_id are stored the other way round
NewRight_exchanged(clock, user_id, outranked_user_id, old_pos, new_pos) ==
    [user_id |-> outranked_user_id, outranked_user_id |-> user_id,
     old_position |-> old_pos, new_position |-> new_pos,
     used |-> FALSE, created_at |-> clock]

\* the row appended by INSERT INTO special_message_rights
NewRight(clock, user_id, outranked_user_id, old_pos, new_pos) ==
    [user_id |-> user_id, outranked_user_id |-> outranked_user_id,
     old_position |-> old_pos, new_position |-> new_pos,
     used |-> FALSE, created_at |-> clock]

store_special_message_right(d, clock, user_id, outranked_user_id, old_pos, new_pos) ==
    [d EXCEPT !.rights =
        Append(d.rights, NewRight(clock, user_id, outranked_user_id, old_pos, new_pos))]

\* WHERE user_id = ? AND used = FALSE
UnusedRights(rs, user_id) ==
    {i \in 1..Len(rs) : rs[i].user_id = user_id /\ ~rs[i].used}

\* ORDER BY created_at DESC LIMIT 1; equal created_at come in rowid order
\* variant: the filter on used is dropped
get_unused_message_right_any(d, user_id) ==
    LET S == {i \in 1..Len(d.rights) : d.rights[i].user_id = user_id}
    IN  IF S = {} THEN NoRight
        ELSE CHOOSE i \in S : \A j \in S :
                \/ d.rights[i].created_at > d.rights[j].created_at
                \/ (d.rights[i].created_at = d.rights[j].created_at /\ i <= j)

\* variant: the filter on user_id is dropped
get_unused_message_right_anyone(d, user_id) ==
    LET S == {i \in 1..Len(d.rights) : ~d.rights[i].used}
    IN  IF S = {} THEN NoRight
        ELSE CHOOSE i \in S : \A j \in S :
                \/ d.rights[i].created_at > d.rights[j].created_at
                \/ (d.rights[i].created_at = d.rights[j].created_at /\ i <= j)

get_unused_message_right(d, user_id) ==
    LET S == UnusedRights(d.rights, user_id)
    IN  IF S = {} THEN NoRight
        ELSE CHOOSE i \in S : \A j \in S :
                \/ d.rights[i].created_at > d.rights[j].created_at
                \/ (d.rights[i].created_at = d.rights[j].created_at /\ i <= j)

\* UPDATE special_message_rights SET used = TRUE WHERE id = ?
\* variant: the UPDATE has no WHERE id = ?
MarkUsed_all(rs, right_id) ==
    [i \in 1..Len(rs) |-> [rs[i] EXCEPT !.used = TRUE]]

\* variant: SET used = (id = ?), on every row
MarkUsed_only(rs, right_id) ==
    [i \in 1..Len(rs) |-> [rs[i] EXCEPT !.used = (i = right_id)]]

MarkUsed(rs, right_id) ==
    [i \in 1..Len(rs) |-> IF i = right_id THEN [rs[i] EXCEPT !.used = TRUE] ELSE rs[i]]

\* returns [ok, db]; the UPDATE succeeds whatever it matches
use_message_right(d, right_id) ==
    [ok |-> TRUE, db |-> [d EXCEPT !.rights = MarkUsed(d.rights, right_id)]]

get_message_right_details(d, right_id) ==
    IF right_id \in 1..Len(d.rights)
    THEN LET r == d.rights[right_id]
         IN  <<r.user_id, r.outranked_user_id, r.old_position, r.new_position>>
    ELSE <<>>

\* ---------------------------------------------------------- bot_handlers.py
\* the loop "Find who was outranked": every row of the old leaderboard is
\* visited; the break leaves the inner loop only
RECURSIVE ScanOutranked(_, _, _, _, _, _)
ScanOutranked(old_lb, new_lb, user_id, new_pos, k, outranked_user) ==
    IF k > Len(old_lb) THEN outranked_user
    ELSE LET uid == old_lb[k][1]
             hit == /\ uid # user_id
                    /\ \E i \in 1..Len(new_lb) : new_lb[i][1] = uid /\ i > new_pos
         IN  ScanOutranked(old_lb, new_lb, user_id, new_pos, k + 1,
                           IF hit THEN <<uid, old_lb[k][2]>> ELSE outranked_user)

FindOutranked(old_lb, new_lb, user_id, new_pos) ==
    ScanOutranked(old_lb, new_lb, user_id, new_pos, 1, NoOutranked)

OvertakeMessage(chat, p, user_id, outranked_user, position_change) ==
    [kind |-> "overtake", chat |-> chat,
     user_id |-> user_id, user_name |-> get_user_display_name(p),
     outranked_id |-> outranked_user[1], outranked_name |-> outranked_user[2],
     old_pos |-> position_change[1], new_pos |-> position_change[2]]

\* no overtake was notified
NoDiff == [user_id |-> 0]

\* returns [db, last_leaderboard, msgs, diff]
check_leaderboard_changes(d, clock, last_lb, chat, user_id, p) ==
    LET new_leaderboard == get_daily_leaderboard_with_ids(d, LeaderboardLimit)
        position_change ==
            IF last_lb # <<>>
            THEN get_user_position_change(user_id, last_lb, new_leaderboard)
            ELSE NoChange
        outranked_user ==
            IF position_change # NoChange
            THEN FindOutranked(last_lb, new_leaderboard, user_id, position_change[2])
            ELSE NoOutranked
        notify == outranked_user # NoOutranked /\ chat # NoChat
    IN  [db |-> IF notify
                THEN store_special_message_right(d, clock, user_id, outranked_user[1],
                                                 position_change[1], position_change[2])
                ELSE d,
         last_leaderboard |-> new_leaderboard,
         msgs |-> IF notify
                  THEN <<OvertakeMessage(chat, p, user_id, outranked_user, position_change)>>
                  ELSE <<>>,
         diff |-> IF notify
                  THEN [user_id |-> user_id, old |-> last_lb, new |-> new_leaderboard]
                  ELSE NoDiff]

\* special_msg, sent to the remembered chat
SpecialMessage(chat, p, details, outranked_name, text, right_id) ==
    [kind |-> "special", chat |-> chat, right_id |-> right_id,
     user_name |-> get_user_display_name(p), outranked_id |-> details[2],
     outranked_name |-> outranked_name, text |-> text]

\* "Find outranked user name from leaderboard"
OutrankedName(last_lb, outranked_user_id) ==
    LET pos == PositionOf(last_lb, outranked_user_id)
    IN  IF pos = None THEN "Unknown User" ELSE last_lb[pos][2]

\* handle_message's guard: a text that is no command
IsPlainText(text) == text # <<>> /\ Head(text) # "/"

\* variant: a refused send is taken for a sent one
SpecialBegin_swallow(d, last_lb, chat, user_id, p, text, send_ok) ==
    LET right_id == get_unused_message_right(d, user_id)
        details == get_message_right_details(d, right_id)
    IN  IF right_id = NoRight \/ details = <<>>
        THEN [right_id |-> NoRight, failed |-> FALSE, msgs |-> <<>>,
              dispatched |-> <<>>]
        ELSE IF chat = NoChat \/ ~send_ok
        THEN [right_id |-> right_id, failed |-> FALSE, msgs |-> <<>>,
              dispatched |-> <<chat>>]
        ELSE [right_id |-> right_id, failed |-> FALSE, dispatched |-> <<chat>>,
              msgs |-> <<SpecialMessage(chat, p, details,
                                        OutrankedName(last_lb, details[2]),
                                        text, right_id)>>]

\* handle_special_message up to its first await: [right_id, failed, msgs,
\* dispatched]. dispatched lists the chat_id arguments of the send_message
\* calls made, msgs the messages that were sent.
\* Sending raises when the dispatcher fails or no chat is remembered; the
\* except clause then ends the handler.
SpecialBegin(d, last_lb, chat, user_id, p, text, send_ok) ==
    LET right_id == get_unused_message_right(d, user_id)
        details == get_message_right_details(d, right_id)
    IN  IF right_id = NoRight \/ details = <<>>
        THEN [right_id |-> NoRight, failed |-> FALSE, msgs |-> <<>>,
              dispatched |-> <<>>]
        ELSE IF chat = NoChat \/ ~send_ok
        THEN [right_id |-> right_id, failed |-> TRUE, msgs |-> <<>>,
              dispatched |-> <<chat>>]
        ELSE [right_id |-> right_id, failed |-> FALSE, dispatched |-> <<chat>>,
              msgs |-> <<SpecialMessage(chat, p, details,
                                        OutrankedName(last_lb, details[2]),
                                        text, right_id)>>]

\* handle_special_message after the broadcast was sent: [ok, db, msgs]
SpecialFinish(d, right_id, reply_chat) ==
    LET r == use_message_right(d, right_id)
    IN  [ok |-> r.ok, db |-> r.db,
         msgs |-> <<[kind |-> "confirm", chat |-> reply_chat]>>]

\* no direct call was made yet
NoCall == [op |-> "none"]

\* the history counters follow the rights table
Pad(counts, n) == [i \in 1..n |-> IF i <= Len(counts) THEN counts[i] ELSE 0]

Bump(counts, i) ==
    [j \in 1..Len(counts) |-> IF j = i THEN counts[j] + 1 ELSE counts[j]]

\* a handler slot: pc is "idle" or "sent" (suspended in the await of the
\* broadcast); the other fields are the locals the handler still needs
IdleTask == [pc |-> "idle", user_id |-> 0, chat |-> NoChat, right_id |-> NoRight]

\* ------------------------------------------------------------------ inputs
ArgLists ==
    { <<>>, << <<"0">> >>, << <<"1">> >>, << <<"2">> >>,
      << <<"-", "1">> >>, << <<"x">> >> }

Texts == { <<"h", "i">>, <<"y", "o">>, <<"/", "x">>, <<>> }

AdminIds == {1}

\* ----------------------------------------------------------------- actions
\* The replies a handler sends back to the chat it was called from (welcome,
\* statistics, leaderboards, errors) read the state and change nothing; they
\* are left out of outbox, and /help, /lb and /top with them.
Init ==
    /\ users = <<>>
    /\ daily = <<>>
    /\ lifetime = <<>>
    /\ reset_log = 0
    /\ rights = <<>>
    /\ now = 0
    /\ last_leaderboard = <<>>
    /\ chat_id = NoChat
    /\ outbox = <<>>
    /\ diff = NoDiff
    /\ tasks = [t \in 1..NumTasks |-> IdleTask]
    /\ sends = <<>>
    /\ use_ok = <<>>
    /\ ret = NoCall
    /\ failed = 0

Counters == /\ sends' = Pad(sends, Len(rights'))
            /\ use_ok' = Pad(use_ok, Len(rights'))

\* /start: register_user, the chat is remembered, then the welcome
StartCommand(u, p, chat) ==
    /\ SetDB(register_user(DB, u, p))
    /\ chat_id' = chat
    /\ outbox' = <<>>
    /\ diff' = NoDiff
    /\ UNCHANGED <<now, last_leaderboard, tasks, sends, use_ok, ret, failed>>

\* /register and /stats: register_user, then a reply
RegisterCommand(u, p) ==
    /\ SetDB(register_user(DB, u, p))
    /\ outbox' = <<>>
    /\ diff' = NoDiff
    /\ UNCHANGED <<now, last_leaderboard, chat_id, tasks, sends, use_ok, ret, failed>>

\* /solved <args>. send_ok tells whether the dispatcher delivers what this
\* handling sends: if not, the reply with the statistics raises, the except
\* clause ends the handler and check_leaderboard_changes is not reached.
SolvedCommand(u, p, args, chat, send_ok) ==
    LET d1 == register_user(DB, u, p)
        n == IF args = <<>> THEN <<>> ELSE parse_number(args[1])
        r == update_solved_questions(d1, u, n[1])
    IN  IF n = <<>> \/ ~r.ok
        THEN /\ SetDB(d1)
             /\ outbox' = <<>>
             /\ diff' = NoDiff
             /\ UNCHANGED <<now, last_leaderboard, chat_id, tasks, sends, use_ok, ret, failed>>
        ELSE LET stats == get_user_stats(r.db, u)
                 c == check_leaderboard_changes(r.db, now, last_leaderboard, chat, u, p)
             IN  /\ stats[1] <= MaxScore /\ stats[2] <= MaxScore
                 /\ chat_id' = chat
                 /\ IF send_ok
                    THEN /\ SetDB(c.db)
                         /\ last_leaderboard' = c.last_leaderboard
                         /\ outbox' = c.msgs
                         /\ diff' = c.diff
                         /\ failed' = failed
                    ELSE /\ SetDB(r.db)
                         /\ last_leaderboard' = last_leaderboard
                         /\ outbox' = <<>>
                         /\ diff' = NoDiff
                         /\ failed' = failed + 1
                 /\ Counters
                 /\ UNCHANGED <<now, tasks, ret>>

\* variant: a reset also forgets the leaderboard seen last
ResetDailyCommand_clear(u) ==
    IF u \notin AdminIds /\ AdminIds # {}
    THEN /\ outbox' = <<>>
         /\ diff' = NoDiff
         /\ UNCHANGED <<users, daily, lifetime, reset_log, rights, now,
                        last_leaderboard, chat_id, tasks, sends, use_ok, ret, failed>>
    ELSE /\ reset_log < MaxResets
         /\ SetDB(reset_daily_stats(DB))
         /\ last_leaderboard' = <<>>
         /\ outbox' = <<>>
         /\ diff' = NoDiff
         /\ UNCHANGED <<now, chat_id, tasks, sends, use_ok, ret, failed>>

\* /reset_daily
ResetDailyCommand(u) ==
    IF u \notin AdminIds /\ AdminIds # {}
    THEN /\ outbox' = <<>>
         /\ diff' = NoDiff
         /\ UNCHANGED <<users, daily, lifetime, reset_log, rights, now,
                        last_leaderboard, chat_id, tasks, sends, use_ok, ret, failed>>
    ELSE /\ reset_log < MaxResets
         /\ SetDB(reset_daily_stats(DB))
         /\ outbox' = <<>>
         /\ diff' = NoDiff
         /\ UNCHANGED <<now, last_leaderboard, chat_id, tasks, sends, use_ok, ret, failed>>

\* the process restarts: BotHandlers is constructed anew over the same
\* database, and the handlers in flight are gone
Restart ==
    /\ last_leaderboard' = <<>>
    /\ chat_id' = NoChat
    /\ outbox' = <<>>
    /\ diff' = NoDiff
    /\ tasks' = [t \in 1..NumTasks |-> IdleTask]
    /\ ret' = NoCall
    /\ UNCHANGED <<users, daily, lifetime, reset_log, rights, now, sends, use_ok, failed>>

\* Score updates and rank events. A run is followed up to its MaxGrants-th
\* grant or its MaxFailures-th refused send; plain messages and the
\* consumption of rights are in SpecMsg.
Open == Len(rights) < MaxGrants /\ failed < MaxFailures

Next ==
    \/ \E u \in Users, p \in Profiles, chat \in Chats : Open /\ StartCommand(u, p, chat)
    \/ \E u \in Users, p \in Profiles : Open /\ RegisterCommand(u, p)
    \/ \E u \in Users, p \in Profiles, args \in ArgLists, chat \in Chats,
          send_ok \in BOOLEAN : Open /\ SolvedCommand(u, p, args, chat, send_ok)
    \/ \E u \in Users : Open /\ ResetDailyCommand(u)
    \/ Open /\ Restart

Spec == Init /\ [][Next]_vars

\* ------------------------------------------- the detector on any snapshots
Plain == [username |-> NULL, first_name |-> "Ann"]

\* a ranked snapshot of the users s[1], s[2], ...
SnapshotOf(s) == [i \in 1..Len(s) |-> <<s[i], display_name(Plain), Len(s) + 1 - i>>]

Snapshots ==
    { SnapshotOf(s) : s \in
        { q \in UNION { [1..n -> Users] : n \in 0..NumUsers } :
            \A i, j \in DOMAIN q : i # j => q[i] # q[j] } }

InitDetect ==
    /\ users = [u \in Users |-> Plain]
    /\ daily \in [Users -> 0..NumUsers]
    /\ lifetime = daily
    /\ reset_log = 0
    /\ rights = <<>>
    /\ now = 0
    /\ last_leaderboard \in Snapshots
    /\ chat_id \in Chats
    /\ outbox = <<>>
    /\ diff = NoDiff
    /\ tasks = [t \in 1..NumTasks |-> IdleTask]
    /\ sends = <<>>
    /\ use_ok = <<>>
    /\ ret = NoCall
    /\ failed = 0

\* get_user_position_change(u, last_leaderboard, the daily leaderboard)
DetectCall(u) ==
    LET new_leaderboard == get_daily_leaderboard_with_ids(DB, LeaderboardLimit)
    IN  /\ ret = NoCall
        /\ ret' = [op |-> "detect", user_id |-> u, old |-> last_leaderboard,
                   new |-> new_leaderboard,
                   result |-> get_user_position_change(u, last_leaderboard,
                                                       new_leaderboard)]
        /\ UNCHANGED <<users, daily, lifetime, reset_log, rights, now,
                       last_leaderboard, chat_id, outbox, diff, tasks, sends, use_ok, failed>>

\* check_leaderboard_changes(update, context, u)
CheckCall(u) ==
    LET c == check_leaderboard_changes(DB, now, last_leaderboard, chat_id, u, users[u])
    IN  /\ ret = NoCall
        /\ ret' = [op |-> "check", user_id |-> u, old |-> last_leaderboard,
                   new |-> c.last_leaderboard]
        /\ SetDB(c.db)
        /\ last_leaderboard' = c.last_leaderboard
        /\ outbox' = c.msgs
        /\ diff' = c.diff
        /\ Counters
        /\ UNCHANGED <<now, chat_id, tasks, failed>>

NextDetect ==
    \/ \E u \in Users : DetectCall(u)
    \/ \E u \in Users : CheckCall(u)

SpecDetect == InitDetect /\ [][NextDetect]_vars

\* ------------------------------------- the ledger and the plain messages
\* Every user has sent "/solved 0" in the chat: all are registered, nobody
\* has scored, the chat is remembered.
InitMsg ==
    /\ users = [u \in Users |-> Plain]
    /\ daily = [u \in Users |-> 0]
    /\ lifetime = [u \in Users |-> 0]
    /\ reset_log = 0
    /\ rights = <<>>
    /\ now = 0
    /\ last_leaderboard = <<>>
    /\ chat_id \in Chats
    /\ outbox = <<>>
    /\ diff = NoDiff
    /\ tasks = [t \in 1..NumTasks |-> IdleTask]
    /\ sends = <<>>
    /\ use_ok = <<>>
    /\ ret = NoCall
    /\ failed = 0

\* the grant of check_leaderboard_changes, made while a chat is remembered:
\* u rose from 2nd to 1st past o
GrantRight(u, o) ==
    /\ u # o
    /\ Len(rights) < MaxRights
    /\ SetDB(store_special_message_right(DB, now, u, o, 2, 1))
    /\ chat_id # NoChat
    /\ outbox' = <<>>
    /\ diff' = NoDiff
    /\ Counters
    /\ ret' = NoCall
    /\ UNCHANGED <<now, last_leaderboard, chat_id, tasks, failed>>

\* handle_message begins in slot t and runs to its first await, or to its
\* end; ret tells which message the last step handled
MsgBegin(t, u, text, chat, send_ok) ==
    LET b == IF IsPlainText(text)
             THEN SpecialBegin(DB, last_leaderboard, chat_id, u, users[u], text, send_ok)
             ELSE [right_id |-> NoRight, failed |-> FALSE, msgs |-> <<>>,
                   dispatched |-> <<>>]
    IN  /\ tasks[t].pc = "idle"
        /\ tasks' = IF b.right_id = NoRight \/ b.failed THEN tasks
                    ELSE [tasks EXCEPT ![t] = [pc |-> "sent", user_id |-> u,
                                               chat |-> chat, right_id |-> b.right_id]]
        /\ outbox' = b.msgs
        /\ diff' = NoDiff
        /\ sends' = IF b.msgs = <<>> THEN sends ELSE Bump(sends, b.right_id)
        /\ ret' = [op |-> "message", user_id |-> u, plain |-> IsPlainText(text),
                   right_id |-> b.right_id, failed |-> b.failed,
                   dispatched |-> b.dispatched]
        /\ UNCHANGED <<users, daily, lifetime, reset_log, rights, now,
                       last_leaderboard, chat_id, use_ok, failed>>

\* the handler of slot t resumes after the broadcast and runs to its end
MsgResume(t) ==
    LET f == SpecialFinish(DB, tasks[t].right_id, tasks[t].chat)
    IN  /\ tasks[t].pc = "sent"
        /\ SetDB(f.db)
        /\ tasks' = [tasks EXCEPT ![t] = IdleTask]
        /\ outbox' = f.msgs
        /\ diff' = NoDiff
        /\ use_ok' = IF f.ok THEN Bump(use_ok, tasks[t].right_id) ELSE use_ok
        /\ ret' = NoCall
        /\ UNCHANGED <<now, last_leaderboard, chat_id, sends, failed>>

\* a second passes
Tick ==
    /\ now < MaxClock
    /\ now' = now + 1
    /\ outbox' = <<>>
    /\ diff' = NoDiff
    /\ ret' = NoCall
    /\ UNCHANGED <<users, daily, lifetime, reset_log, rights, last_leaderboard,
                   chat_id, tasks, sends, use_ok, failed>>

NextMsg ==
    \/ \E u \in Users, o \in Users : GrantRight(u, o)
    \/ \E t \in 1..NumTasks, u \in Users, text \in Texts, chat \in Chats,
          send_ok \in BOOLEAN : MsgBegin(t, u, text, chat, send_ok)
    \/ \E t \in 1..NumTasks : MsgResume(t)
    \/ Tick
    \/ Restart

SpecMsg == InitMsg /\ [][NextMsg]_vars

\* ------------------------------------------- the score store, called directly
\* DatabaseManager on a fresh database: register_user, update_solved_questions
\* and reset_daily_stats in any order; ret.log lists the calls made so far

Deltas == (0 - MaxDelta)..MaxDelta

InitStore ==
    /\ users = <<>>
    /\ daily = <<>>
    /\ lifetime = <<>>
    /\ reset_log = 0
    /\ rights = <<>>
    /\ now = 0
    /\ last_leaderboard = <<>>
    /\ chat_id = NoChat
    /\ outbox = <<>>
    /\ diff = NoDiff
    /\ tasks = [t \in 1..NumTasks |-> IdleTask]
    /\ sends = <<>>
    /\ use_ok = <<>>
    /\ ret = [op |-> "store", log |-> <<>>]
    /\ failed = 0

Logged(entry) ==
    /\ Len(ret.log) < MaxCalls
    /\ ret' = [ret EXCEPT !.log = Append(@, entry)]
    /\ UNCHANGED <<now, last_leaderboard, chat_id, outbox, diff, tasks,
                   sends, use_ok, failed>>

\* register_user(u, username, first_name, last_name)
RegisterCall(u, p) ==
    /\ SetDB(register_user(DB, u, p))
    /\ Logged([call |-> "register", user_id |-> u, delta |-> 0, ok |-> TRUE,
               name |-> p.first_name])

\* update_solved_questions(u, delta)
DeltaCall(u, delta) ==
    LET r == update_solved_questions(DB, u, delta)
    IN  /\ SetDB(r.db)
        /\ Logged([call |-> "delta", user_id |-> u, delta |-> delta, ok |-> r.ok])

\* reset_daily_stats()
ResetCall ==
    /\ SetDB(reset_daily_stats(DB))
    /\ Logged([call |-> "reset", user_id |-> 0, delta |-> 0, ok |-> TRUE])

\* store_special_message_right(u, o, 2, 1)
GrantCall(u, o) ==
    /\ Len(rights) < MaxRights
    /\ SetDB(store_special_message_right(DB, now, u, o, 2, 1))
    /\ Logged([call |-> "grant", user_id |-> u, delta |-> 0, ok |-> TRUE])

NextStore ==
    \/ \E u \in Users, p \in Profiles : RegisterCall(u, p)
    \/ \E u \in Users : GrantCall(u, (u % NumUsers) + 1)
    \/ \E u \in Users, delta \in Deltas : DeltaCall(u, delta)
    \/ ResetCall

SpecStore == InitStore /\ [][NextStore]_vars

\* ------------------------------- the score store, statement by statement
\* Every call of update_solved_questions and reset_daily_stats opens its own
\* connection on the database file and runs its statements in one transaction.
\* A slot of tasks is here a connection: pc is the statement it is about to
\* run, w_daily, w_lifetime and w_log are the rows it has written and not yet
\* committed. ret.db is the store obtained by making the same calls one at a
\* time, in the order in which they returned.

\* a question solved, and a correction larger than any count
TxnDeltas == {0 - MaxDelta, 1}

IdleConn ==
    [pc |-> "idle", op |-> "none", user_id |-> 0, questions_count |-> 0,
     current_lifetime |-> 0, w_daily |-> <<>>, w_lifetime |-> <<>>, w_log |-> 0]

\* the statements after the first write of a transaction run under the
\* write lock of the file
WritePcs == {"select_lifetime", "lifetime", "floor", "reset_log", "commit"}

\* variant: a write does not wait for the writer that holds the file
Reserved_free(t) == TRUE

\* the first INSERT or UPDATE of a transaction takes the write lock, which
\* one connection holds at a time
Reserved(t) == \A o \in DOMAIN tasks \ {t} : tasks[o].pc \notin WritePcs

Overlay(f, w) ==
    [x \in DOMAIN f \cup DOMAIN w |-> IF x \in DOMAIN w THEN w[x] ELSE f[x]]

\* what a SELECT of the connection sees: the file and its own writes
ViewDaily(c) == Overlay(daily, c.w_daily)

ViewLifetime(c) == Overlay(lifetime, c.w_lifetime)

\* conn.commit()
Commit(d, c) ==
    [d EXCEPT !.daily = Overlay(d.daily, c.w_daily),
              !.lifetime = Overlay(d.lifetime, c.w_lifetime),
              !.reset_log = d.reset_log + c.w_log]

\* variant: the rows written before the exception stay in the file
Rollback_partial(d, c) ==
    [d EXCEPT !.daily = Overlay(d.daily, c.w_daily),
              !.lifetime = Overlay(d.lifetime, c.w_lifetime),
              !.reset_log = d.reset_log + c.w_log]

\* an exception leaves the with block: the transaction is rolled back
Rollback(d, c) == d

InFlight(t) == {o \in DOMAIN tasks \ {t} : tasks[o].pc # "idle"}

\* ret.last is the last call that returned False, ret.raced tells whether a
\* call has committed while another one was under way
Returned(t, ok, d) ==
    ret' = [op |-> "txn", db |-> d,
            last |-> IF ok THEN ret.last
                     ELSE [pc |-> tasks[t].pc, op |-> tasks[t].op,
                           user_id |-> tasks[t].user_id, ok |-> FALSE],
            raced |-> (ret.raced \/ (ok /\ InFlight(t) # {}))]

\* the questions the calls under way on connections 1..i are adding for u
RECURSIVE Pending(_, _)
Pending(u, i) ==
    IF i = 0 THEN 0
    ELSE Pending(u, i - 1)
            + (IF tasks[i].user_id = u /\ tasks[i].questions_count > 0
               THEN tasks[i].questions_count ELSE 0)

TxnFrame ==
    UNCHANGED <<users, rights, now, last_leaderboard, chat_id, outbox, diff,
                sends, use_ok>>

InitTxn ==
    /\ users = [u \in 1..(NumUsers - 1) |-> Plain]
    /\ daily = [u \in 1..(NumUsers - 1) |-> 0]
    /\ lifetime = [u \in 1..(NumUsers - 1) |-> 0]
    /\ reset_log = 0
    /\ rights = <<>>
    /\ now = 0
    /\ last_leaderboard = <<>>
    /\ chat_id = NoChat
    /\ outbox = <<>>
    /\ diff = NoDiff
    /\ tasks = [t \in 1..NumTasks |-> IdleConn]
    /\ sends = <<>>
    /\ use_ok = <<>>
    /\ ret = [op |-> "txn", db |-> DB,
              last |-> [pc |-> "idle", op |-> "none", user_id |-> 0, ok |-> TRUE],
              raced |-> FALSE]
    /\ failed = 0

\* update_solved_questions(u, delta) is entered on connection t
TxnCall(t, u, delta) ==
    /\ tasks[t].pc = "idle"
    /\ u \in DOMAIN lifetime =>
            lifetime[u] + Pending(u, NumTasks) + delta <= MaxScore
    /\ tasks' = [tasks EXCEPT ![t] = [IdleConn EXCEPT !.pc = "users",
                    !.op = "delta", !.user_id = u, !.questions_count = delta]]
    /\ UNCHANGED <<daily, lifetime, reset_log, ret, failed>>
    /\ TxnFrame

\* SELECT user_id FROM users: an unknown user ends the call with False
SelectUser(t) ==
    /\ tasks[t].pc = "users"
    /\ IF tasks[t].user_id \in DOMAIN users
       THEN /\ tasks' = [tasks EXCEPT ![t].pc = "daily"]
            /\ ret' = ret
       ELSE /\ tasks' = [tasks EXCEPT ![t] = IdleConn]
            /\ Returned(t, FALSE, ret.db)
    /\ UNCHANGED <<daily, lifetime, reset_log, failed>>
    /\ TxnFrame

\* INSERT OR REPLACE INTO daily_stats ... COALESCE((SELECT ...), 0) + ?
WriteDaily(t) ==
    LET c == tasks[t]
        seen == ViewDaily(c)
        old == IF c.user_id \in DOMAIN seen THEN seen[c.user_id] ELSE 0
    IN  /\ c.pc = "daily"
        /\ Reserved(t)
        /\ tasks' = [tasks EXCEPT ![t].pc = "select_lifetime",
                        ![t].w_daily = Put(c.w_daily, c.user_id,
                                           old + c.questions_count)]
        /\ UNCHANGED <<daily, lifetime, reset_log, ret, failed>>
        /\ TxnFrame

\* SELECT total_questions FROM lifetime_stats
SelectLifetime(t) ==
    LET c == tasks[t]
        seen == ViewLifetime(c)
    IN  /\ c.pc = "select_lifetime"
        /\ tasks' = [tasks EXCEPT ![t].pc = "lifetime",
                        ![t].current_lifetime =
                            IF c.user_id \in DOMAIN seen THEN seen[c.user_id] ELSE 0]
        /\ UNCHANGED <<daily, lifetime, reset_log, ret, failed>>
        /\ TxnFrame

\* INSERT OR REPLACE INTO lifetime_stats with max(0, current_lifetime + n)
WriteLifetime(t) ==
    LET c == tasks[t]
    IN  /\ c.pc = "lifetime"
        /\ tasks' = [tasks EXCEPT ![t].pc = "floor",
                        ![t].w_lifetime = Put(c.w_lifetime, c.user_id,
                            Max(0, c.current_lifetime + c.questions_count))]
        /\ UNCHANGED <<daily, lifetime, reset_log, ret, failed>>
        /\ TxnFrame

\* SELECT questions_solved; UPDATE daily_stats SET questions_solved = 0
FloorDaily(t) ==
    LET c == tasks[t]
        seen == ViewDaily(c)
    IN  /\ c.pc = "floor"
        /\ tasks' = [tasks EXCEPT ![t].pc = "commit",
                        ![t].w_daily =
                            IF c.user_id \in DOMAIN seen /\ seen[c.user_id] < 0
                            THEN Put(c.w_daily, c.user_id, 0)
                            ELSE c.w_daily]
        /\ UNCHANGED <<daily, lifetime, reset_log, ret, failed>>
        /\ TxnFrame

\* reset_daily_stats() is entered on connection t
TxnResetCall(t) ==
    /\ tasks[t].pc = "idle"
    /\ reset_log < MaxResets
    /\ \A o \in DOMAIN tasks : tasks[o].op # "reset"
    /\ tasks' = [tasks EXCEPT ![t] = [IdleConn EXCEPT !.pc = "reset_update",
                                                       !.op = "reset"]]
    /\ UNCHANGED <<daily, lifetime, reset_log, ret, failed>>
    /\ TxnFrame

\* UPDATE daily_stats SET questions_solved = 0
ResetUpdate(t) ==
    LET c == tasks[t]
    IN  /\ c.pc = "reset_update"
        /\ Reserved(t)
        /\ tasks' = [tasks EXCEPT ![t].pc = "reset_log",
                        ![t].w_daily = [u \in DOMAIN ViewDaily(c) |-> 0]]
        /\ UNCHANGED <<daily, lifetime, reset_log, ret, failed>>
        /\ TxnFrame

\* INSERT INTO daily_reset_log
ResetLog(t) ==
    /\ tasks[t].pc = "reset_log"
    /\ tasks' = [tasks EXCEPT ![t].pc = "commit", ![t].w_log = 1]
    /\ UNCHANGED <<daily, lifetime, reset_log, ret, failed>>
    /\ TxnFrame

\* conn.commit(); return True
TxnCommit(t) ==
    LET c == tasks[t]
        d == Commit(DB, c)
    IN  /\ c.pc = "commit"
        /\ daily' = d.daily
        /\ lifetime' = d.lifetime
        /\ reset_log' = d.reset_log
        /\ tasks' = [tasks EXCEPT ![t] = IdleConn]
        /\ Returned(t, TRUE,
                    IF c.op = "reset" THEN reset_daily_stats(ret.db)
                    ELSE update_solved_questions(ret.db, c.user_id,
                                                 c.questions_count).db)
        /\ failed' = failed
        /\ TxnFrame

\* a statement or the commit raises (the file is locked, the disk is full):
\* except Exception: return False
TxnFail(t) ==
    LET c == tasks[t]
        d == Rollback(DB, c)
    IN  /\ c.pc # "idle"
        /\ failed < MaxFailures
        /\ daily' = d.daily
        /\ lifetime' = d.lifetime
        /\ reset_log' = d.reset_log
        /\ tasks' = [tasks EXCEPT ![t] = IdleConn]
        /\ Returned(t, FALSE, ret.db)
        /\ failed' = failed + 1
        /\ TxnFrame

NextTxn ==
    \/ \E t \in 1..NumTasks, u \in Users, delta \in TxnDeltas : TxnCall(t, u, delta)
    \/ \E t \in 1..NumTasks : SelectUser(t)
    \/ \E t \in 1..NumTasks : WriteDaily(t)
    \/ \E t \in 1..NumTasks : SelectLifetime(t)
    \/ \E t \in 1..NumTasks : WriteLifetime(t)
    \/ \E t \in 1..NumTasks : FloorDaily(t)
    \/ \E t \in 1..NumTasks : TxnResetCall(t)
    \/ \E t \in 1..NumTasks : ResetUpdate(t)
    \/ \E t \in 1..NumTasks : ResetLog(t)
    \/ \E t \in 1..NumTasks : TxnCommit(t)
    \/ \E t \in 1..NumTasks : TxnFail(t)

SpecTxn == InitTxn /\ [][NextTxn]_vars

\* ------------------------------------------- the leaderboards on any store
\* the three leaderboard queries on a store with any names and counts

BoardProfiles ==
    { [username |-> NULL, first_name |-> "Ann"],
      [username |-> NULL, first_name |-> "Demo User"],
      [username |-> NULL, first_name |-> "demo user"],
      [username |-> "bob", first_name |-> "Demo User"] }

Limits == 0..(NumUsers + 1)

InitBoard ==
    /\ users \in [Users -> BoardProfiles]
    /\ daily \in [Users -> 0..MaxScore]
    /\ lifetime \in [Users -> 0..MaxScore]
    /\ \A u \in Users : daily[u] <= lifetime[u]
    /\ reset_log = 0
    /\ rights = <<>>
    /\ now = 0
    /\ last_leaderboard = <<>>
    /\ chat_id = NoChat
    /\ outbox = <<>>
    /\ diff = NoDiff
    /\ tasks = [t \in 1..NumTasks |-> IdleTask]
    /\ sends = <<>>
    /\ use_ok = <<>>
    /\ ret = NoCall
    /\ failed = 0

\* get_daily_leaderboard_with_ids(limit), get_daily_leaderboard(limit) and
\* get_lifetime_leaderboard(limit)
BoardCall(limit) ==
    /\ ret = NoCall
    /\ ret' = [op |-> "boards", limit |-> limit,
               with_ids |-> get_daily_leaderboard_with_ids(DB, limit),
               daily |-> get_daily_leaderboard(DB, limit),
               lifetime |-> get_lifetime_leaderboard(DB, limit)]
    /\ UNCHANGED <<users, daily, lifetime, reset_log, rights, now,
                   last_leaderboard, chat_id, outbox, diff, tasks, sends,
                   use_ok, failed>>

NextBoard == \E limit \in Limits : BoardCall(limit)

SpecBoard == InitBoard /\ [][NextBoard]_vars

\* ============================================================== properties
\* the user ids of a leaderboard, in rank order
Ids(lb) == [i \in 1..Len(lb) |-> lb[i][1]]

\* the 1-based rank of uid in lb, 0 when uid is not ranked
RankIn(lb, uid) ==
    IF \E i \in 1..Len(lb) : lb[i][1] = uid
    THEN CHOOSE i \in 1..Len(lb) : lb[i][1] = uid
    ELSE 0

\* the most recent step sent an overtake broadcast and granted a right
Emitted == diff # NoDiff
Event == outbox[1]
Granted == rights[Len(rights)]

\* the first user of the previous snapshot, in its order, who is not the
\* acting user and is ranked after new_pos in the current one; 0 if none
FirstDisplaced(old_lb, new_lb, user_id, new_pos) ==
    LET S == {k \in 1..Len(old_lb) :
                /\ old_lb[k][1] # user_id
                /\ RankIn(new_lb, old_lb[k][1]) > new_pos}
    IN  IF S = {} THEN 0
        ELSE old_lb[CHOOSE k \in S : \A j \in S : k <= j][1]

\* C1: when an overtake is emitted, the displaced user named in the broadcast
\* and in the granted right is the first user of the previous snapshot, in
\* ranked order, who is not the acting user and whose current position is
\* strictly greater than the acting user's new rank.
C1_DisplacedIsFirstMatch ==
    Emitted =>
        /\ Event.outranked_id =
              FirstDisplaced(diff.old, diff.new, diff.user_id, Event.new_pos)
        /\ Granted.outranked_user_id = Event.outranked_id

\* C3: for an acting user absent from the previous snapshot, the reported old
\* rank is the previous snapshot's length plus one and the new rank is the
\* user's position in the current snapshot; previous = [1, 2], current =
\* [1, 3, 2], acting = 3 reports old rank 3, new rank 2, displaced 2.
C3_NewEntrantRanks ==
    (Emitted /\ RankIn(diff.old, diff.user_id) = 0) =>
        /\ Event.user_id = diff.user_id
        /\ Event.old_pos = Len(diff.old) + 1
        /\ Event.new_pos = RankIn(diff.new, diff.user_id)
        /\ Event.new_pos >= 1
        /\ Granted.old_position = Event.old_pos
        /\ Granted.new_position = Event.new_pos
        /\ (Ids(diff.old) = <<1, 2>> /\ Ids(diff.new) = <<1, 3, 2>>) =>
              (Event.old_pos = 3 /\ Event.new_pos = 2 /\ Event.outranked_id = 2)

C3_Witness ==
    /\ Emitted
    /\ diff.user_id = 3
    /\ Ids(diff.old) = <<1, 2>>
    /\ Ids(diff.new) = <<1, 3, 2>>
    /\ Event.kind = "overtake"

\* C4: when an overtake is emitted, the displaced user was ranked at or above
\* the acting user's new rank in the previous snapshot and is ranked strictly
\* below it in the current snapshot.
C4_DisplacedWasAtOrAbove ==
    Emitted =>
        /\ RankIn(diff.old, Event.outranked_id) >= 1
        /\ RankIn(diff.old, Event.outranked_id) <= Event.new_pos
        /\ RankIn(diff.new, Event.outranked_id) > Event.new_pos

\* C5: every emitted overtake reports a strict improvement: the new rank is
\* strictly less than the old rank, new entrants included.
C5_StrictImprovement ==
    Emitted =>
        /\ Event.new_pos < Event.old_pos
        /\ Granted.new_position < Granted.old_position

\* C2: get_user_position_change returns a change only when the acting user
\* is in the current snapshot and either improved on the previous one or is
\* absent from it; when the rank is unchanged or worsened, or the user is
\* absent from the current snapshot, it returns no change, and
\* check_leaderboard_changes then sends no broadcast and grants no right.
C2_ChangeOnlyWhenImprovedOrNew ==
    LET o == RankIn(ret.old, ret.user_id)
        n == RankIn(ret.new, ret.user_id)
        quiet == (o # 0 /\ n # 0 /\ n >= o) \/ n = 0
    IN  /\ ret.op = "detect" =>
            /\ ret.result # NoChange => (n # 0 /\ (o = 0 \/ n < o))
            /\ quiet => ret.result = NoChange
        /\ ret.op = "check" =>
            (quiet => (outbox = <<>> /\ rights = <<>> /\ diff = NoDiff))

C2_Witness ==
    /\ ret.op = "check"
    /\ ret.user_id = 1
    /\ Ids(ret.old) = <<1, 2>>
    /\ Ids(ret.new) = <<1, 2>>
    /\ outbox = <<>>
    /\ rights = <<>>

\* C6: each right causes at most one attributed broadcast, however the
\* plain-message handlers interleave.
C6_OneBroadcastPerRight ==
    \A i \in 1..Len(sends) : sends[i] <= 1

\* C7: of the use_message_right calls made on one right, at most one
\* reports success.
C7_OneSuccessfulConsume ==
    \A i \in 1..Len(use_ok) : use_ok[i] <= 1

\* C8: a used right stays used; get_unused_message_right never returns a
\* used right, nor a right of another user, and returns none for a user who
\* has no unused right.
PeekSkipsUsed ==
    \A u \in Users :
        LET r == get_unused_message_right(DB, u)
        IN  /\ r # NoRight =>
                (r \in 1..Len(rights) /\ ~rights[r].used /\ rights[r].user_id = u)
            /\ (\A i \in 1..Len(rights) : rights[i].user_id = u => rights[i].used)
                    => r = NoRight

UsedStaysUsed ==
    \A i \in 1..Len(rights) :
        rights[i].used => (i <= Len(rights') /\ rights'[i].used)

C8_ConsumedNeverReturned == [](PeekSkipsUsed) /\ [][UsedStaysUsed]_vars

C8_Witness ==
    \E i, j \in 1..Len(rights) :
        /\ rights[i].used
        /\ get_unused_message_right(DB, rights[i].user_id) = NoRight
        /\ ~rights[j].used
        /\ tasks = [t \in 1..NumTasks |-> IdleTask]

\* C9: get_unused_message_right returns the user's unused right that was
\* granted last, also when several of them carry the same created_at.
C9_PeekIsLastGranted ==
    \A u \in Users :
        LET S == {i \in 1..Len(rights) : rights[i].user_id = u /\ ~rights[i].used}
        IN  S # {} =>
                get_unused_message_right(DB, u) = CHOOSE i \in S : \A j \in S : j <= i

\* C10: a plain text from a user with an unused right, with a remembered
\* chat and no failure, is broadcast once with attribution, carrying the
\* text and naming the right get_unused_message_right returned; when the
\* handler ends, that right and no other has changed, to used.
BroadcastOffered ==
    \A u \in Users, text \in Texts :
        (IsPlainText(text) /\ chat_id # NoChat
            /\ \E i \in 1..Len(rights) : rights[i].user_id = u /\ ~rights[i].used) =>
        LET b == SpecialBegin(DB, last_leaderboard, chat_id, u, users[u], text, TRUE)
        IN  /\ ~b.failed
            /\ Len(b.msgs) = 1
            /\ b.msgs[1].kind = "special"
            /\ b.msgs[1].text = text
            /\ b.msgs[1].chat = chat_id
            /\ b.msgs[1].right_id = b.right_id
            /\ b.right_id \in 1..Len(rights)
            /\ rights[b.right_id].user_id = u
            /\ ~rights[b.right_id].used

HandlingStep ==
    \A t \in 1..NumTasks :
        /\ (tasks[t].pc = "idle" /\ tasks'[t].pc = "sent") =>
            /\ tasks'[t].right_id = get_unused_message_right(DB, tasks'[t].user_id)
            /\ Len(outbox') = 1
            /\ outbox'[1].kind = "special"
            /\ outbox'[1].right_id = tasks'[t].right_id
            /\ rights' = rights
        /\ (tasks[t].pc = "sent" /\ tasks'[t].pc = "idle" /\ outbox' # <<>>) =>
            /\ Len(outbox') = 1
            /\ outbox'[1].kind = "confirm"
            /\ Len(rights') = Len(rights)
            /\ rights'[tasks[t].right_id].used
            /\ \A i \in 1..Len(rights) :
                    i # tasks[t].right_id => rights'[i] = rights[i]
            /\ \A i \in 1..Len(rights) :
                    [rights'[i] EXCEPT !.used = FALSE] = [rights[i] EXCEPT !.used = FALSE]

C10_PlainMessageUsesPeekedRight == [](BroadcastOffered) /\ [][HandlingStep]_vars

C10_Witness ==
    /\ Len(outbox) = 1
    /\ outbox[1].kind = "confirm"
    /\ \E i, j \in 1..Len(rights) :
        /\ rights[i].user_id = rights[j].user_id
        /\ rights[i].used
        /\ ~rights[j].used
        /\ sends[i] = 1
        /\ use_ok[i] = 1
        /\ sends[j] = 0

\* C11: in the handling of one score update a right is granted if and only
\* if an overtake broadcast is sent, at most one of each; the new row names
\* the acting user, the displaced user of the broadcast and the ranks
\* get_user_position_change returned, and is unused; older rows are kept.
GrantWithBroadcast ==
    LET g == Len(rights') - Len(rights)
        sent == {i \in 1..Len(outbox') : outbox'[i].kind = "overtake"}
    IN  /\ g \in {0, 1}
        /\ Cardinality(sent) = g
        /\ \A i \in 1..Len(rights) : rights'[i] = rights[i]
        /\ g = 1 =>
            LET r == rights'[Len(rights')]
                m == outbox'[1]
            IN  /\ diff' # NoDiff
                /\ r.user_id = diff'.user_id
                /\ m.user_id = r.user_id
                /\ r.outranked_user_id = m.outranked_id
                /\ <<r.old_position, r.new_position>> =
                       get_user_position_change(diff'.user_id, diff'.old, diff'.new)
                /\ <<m.old_pos, m.new_pos>> = <<r.old_position, r.new_position>>
                /\ r.used = FALSE

C11_GrantIffBroadcast == [][GrantWithBroadcast]_vars

C11_Witness ==
    /\ Len(rights) = 1
    /\ Len(outbox) = 1
    /\ outbox[1].kind = "overtake"
    /\ outbox[1].user_id = rights[1].user_id
    /\ rights[1].old_position > rights[1].new_position
    /\ ~rights[1].used

\* C12: when the handling of a score update that changed a counter has
\* ended, last_leaderboard is the daily leaderboard with ids (limit 10) of
\* the store as that update left it, whether or not an overtake was sent.
CountOf(stats, u) == IF u \in DOMAIN stats THEN stats[u] ELSE 0

ScoreChanged ==
    /\ reset_log' = reset_log
    /\ \E u \in Users : \/ CountOf(daily', u) # CountOf(daily, u)
                        \/ CountOf(lifetime', u) # CountOf(lifetime, u)

SnapshotRefreshed ==
    ScoreChanged =>
        last_leaderboard' =
            get_daily_leaderboard_with_ids(
                [users |-> users', daily |-> daily', lifetime |-> lifetime',
                 reset_log |-> reset_log', rights |-> rights'],
                LeaderboardLimit)

C12_SnapshotFollowsUpdate == [][SnapshotRefreshed]_vars

\* the call logged by the step, if the step is a direct call on the store
Called == Len(ret'.log) = Len(ret.log) + 1
TheCall == ret'.log[Len(ret'.log)]
LastCall == ret.log[Len(ret.log)]
Floor0(x) == IF x < 0 THEN 0 ELSE x

\* C13: update_solved_questions for a registered user with daily count d and
\* lifetime count l succeeds and leaves daily = max(0, d + delta) and
\* lifetime = max(0, l + delta), for positive, zero and negative delta, and
\* changes no other user's counters.
DeltaApplied ==
    (Called /\ TheCall.call = "delta" /\ TheCall.user_id \in DOMAIN users) =>
        LET u == TheCall.user_id
        IN  /\ TheCall.ok
            /\ DOMAIN daily' = DOMAIN daily
            /\ DOMAIN lifetime' = DOMAIN lifetime
            /\ daily'[u] = Floor0(daily[u] + TheCall.delta)
            /\ lifetime'[u] = Floor0(lifetime[u] + TheCall.delta)
            /\ \A v \in DOMAIN daily \ {u} :
                    daily'[v] = daily[v] /\ lifetime'[v] = lifetime[v]

C14_CountsNonNegative ==
    /\ \A u \in DOMAIN daily : daily[u] >= 0
    /\ \A u \in DOMAIN lifetime : lifetime[u] >= 0

C14_Witness ==
    /\ ret.op = "store"
    /\ Len(ret.log) = 3
    /\ ret.log[2].call = "delta" /\ ret.log[2].delta = 1 /\ ret.log[2].ok
    /\ ret.log[3].call = "delta" /\ ret.log[3].delta = 0 - 2 /\ ret.log[3].ok
    /\ ret.log[3].user_id = ret.log[2].user_id
    /\ daily[ret.log[3].user_id] = 0
    /\ lifetime[ret.log[3].user_id] = 0

\* the deltas of the successful update_solved_questions calls for u, in order
RECURSIVE AppliedTo(_, _)
AppliedTo(log, u) ==
    IF log = <<>> THEN <<>>
    ELSE LET e == log[Len(log)]
             rest == AppliedTo(SubSeq(log, 1, Len(log) - 1), u)
         IN  IF e.call = "delta" /\ e.user_id = u /\ e.ok
             THEN Append(rest, e.delta) ELSE rest

RECURSIVE SumOf(_)
SumOf(ds) == IF ds = <<>> THEN 0 ELSE SumOf(SubSeq(ds, 1, Len(ds) - 1)) + ds[Len(ds)]

\* the deltas added one at a time, each partial total brought back to 0
RECURSIVE FloorSum(_)
FloorSum(ds) ==
    IF ds = <<>> THEN 0
    ELSE Floor0(FloorSum(SubSeq(ds, 1, Len(ds) - 1)) + ds[Len(ds)])

NoDip(ds) == \A k \in 1..Len(ds) : SumOf(SubSeq(ds, 1, k)) >= 0

\* C15 as stated: the lifetime count of a registered user is max(0, sum of
\* the deltas applied to that user since registration), resets or not.
C15_LifetimeIsFloorOfSum ==
    ret.op = "store" =>
        \A u \in DOMAIN users :
            lifetime[u] = Floor0(SumOf(AppliedTo(ret.log, u)))

\* C15 amended: the lifetime count is the deltas added one at a time with
\* every partial total brought back to 0; it is max(0, sum of the deltas)
\* when no partial sum is negative; resets in between change nothing.
C15_LifetimeIsFloorSum ==
    ret.op = "store" =>
        \A u \in DOMAIN users :
            LET ds == AppliedTo(ret.log, u)
            IN  /\ lifetime[u] = FloorSum(ds)
                /\ NoDip(ds) => lifetime[u] = Floor0(SumOf(ds))

C15_Witness ==
    /\ ret.op = "store"
    /\ Len(ret.log) = 4
    /\ ret.log[2].call = "delta" /\ ret.log[2].delta = 0 - 1 /\ ret.log[2].ok
    /\ ret.log[3].call = "reset"
    /\ ret.log[4].call = "delta" /\ ret.log[4].delta = 1 /\ ret.log[4].ok
    /\ ret.log[4].user_id = ret.log[2].user_id
    /\ lifetime[ret.log[4].user_id] = 1

\* C16: update_solved_questions for a user id that is not registered returns
\* failure and leaves the store as it was: no row is created for that id and
\* no counter changes.
UnknownRefused ==
    (Called /\ TheCall.call = "delta" /\ TheCall.user_id \notin DOMAIN users) =>
        /\ TheCall.ok = FALSE
        /\ users' = users
        /\ daily' = daily
        /\ lifetime' = lifetime
        /\ reset_log' = reset_log
        /\ rights' = rights
        /\ TheCall.user_id \notin DOMAIN daily'
        /\ TheCall.user_id \notin DOMAIN lifetime'

C16_UnknownUserRefused == [][UnknownRefused]_vars

C16_Witness ==
    /\ ret.op = "store"
    /\ Len(ret.log) >= 3
    /\ LastCall.call = "delta"
    /\ LastCall.delta = 2
    /\ LastCall.ok = FALSE
    /\ LastCall.user_id \notin DOMAIN users
    /\ \E v \in DOMAIN users : daily[v] = 1 /\ lifetime[v] = 1

\* C17: each reset_daily_stats call sets every daily count to 0 and appends
\* exactly one row to daily_reset_log; after two calls in a row the daily
\* counts are 0 after each and the log has two more rows.
ResetApplied ==
    (Called /\ TheCall.call = "reset") =>
        /\ DOMAIN daily' = DOMAIN daily
        /\ \A u \in DOMAIN daily' : daily'[u] = 0
        /\ reset_log' = reset_log + 1

ResetsLogged ==
    ret.op = "store" =>
        /\ reset_log = Cardinality({k \in 1..Len(ret.log) : ret.log[k].call = "reset"})
        /\ (Len(ret.log) >= 2 /\ LastCall.call = "reset"
                /\ ret.log[Len(ret.log) - 1].call = "reset") =>
              (reset_log >= 2 /\ \A u \in DOMAIN daily : daily[u] = 0)

C17_ResetZeroesAndLogs == [](ResetsLogged) /\ [][ResetApplied]_vars

C17_Witness ==
    /\ ret.op = "store"
    /\ Len(ret.log) = 4
    /\ ret.log[3].call = "reset"
    /\ ret.log[4].call = "reset"
    /\ reset_log = 2
    /\ \E u \in DOMAIN users : lifetime[u] = 1 /\ daily[u] = 0

\* C18: reset_daily_stats leaves every lifetime count, the users table and
\* the special_message_rights table as they were.
ResetFrame ==
    (Called /\ TheCall.call = "reset") =>
        /\ lifetime' = lifetime
        /\ users' = users
        /\ rights' = rights

C18_ResetKeepsLifetime == [][ResetFrame]_vars

C18_Witness ==
    /\ ret.op = "store"
    /\ Len(ret.log) = MaxCalls
    /\ LastCall.call = "reset"
    /\ Len(rights) = 1
    /\ \E u \in DOMAIN users : lifetime[u] = 2 /\ daily[u] = 0

\* rows of <<name, score>> in non-increasing score order, all scores > 0
RankedRows(lb) ==
    /\ \A i \in 1..Len(lb) : lb[i][2] > 0
    /\ \A i, j \in 1..Len(lb) : i < j => lb[i][2] >= lb[j][2]

\* C19: for every store and every limit >= 0, each leaderboard (daily, daily
\* with ids, lifetime) is in non-increasing score order, holds only users
\* whose count in that scope is > 0, holds each user at most once and has at
\* most limit rows.
C19_LeaderboardShape ==
    ret.op = "boards" =>
        /\ Len(ret.with_ids) <= ret.limit
        /\ Len(ret.daily) <= ret.limit
        /\ Len(ret.lifetime) <= ret.limit
        /\ \A i, j \in 1..Len(ret.with_ids) :
                /\ i # j => ret.with_ids[i][1] # ret.with_ids[j][1]
                /\ i < j => ret.with_ids[i][3] >= ret.with_ids[j][3]
        /\ \A i \in 1..Len(ret.with_ids) :
                /\ ret.with_ids[i][1] \in Users
                /\ ret.with_ids[i][3] = daily[ret.with_ids[i][1]]
                /\ ret.with_ids[i][3] > 0
        /\ RankedRows(ret.daily)
        /\ RankedRows(ret.lifetime)
        /\ Len(ret.daily) <= Cardinality({u \in Users : daily[u] > 0})
        /\ Len(ret.lifetime) <= Cardinality({u \in Users : lifetime[u] > 0})
        /\ \A i \in 1..Len(ret.lifetime) :
                \E u \in Users : lifetime[u] = ret.lifetime[i][2]
        /\ \A i \in 1..Len(ret.daily) :
                \E u \in Users : daily[u] = ret.daily[i][2]

C19_Witness ==
    /\ ret.op = "boards"
    /\ ret.limit = 2
    /\ Cardinality({u \in Users : daily[u] > 0}) = 3
    /\ Len(ret.with_ids) = 2
    /\ ret.with_ids[1][3] > ret.with_ids[2][3]
    /\ Len(ret.lifetime) = 2

\* the names of the model in lower case
LowerCase(name) ==
    CASE name = "Ann" -> "ann"
      [] name = "Demo User" -> "demo user"
      [] name = "Unknown User" -> "unknown user"
      [] OTHER -> name

\* C20: no leaderboard (daily, daily with ids, lifetime) has a row whose
\* display name is "Demo User" in any mix of upper and lower case, whatever
\* username and first name are stored.
C20_NoDemoUserAnyCase ==
    ret.op = "boards" =>
        /\ \A i \in 1..Len(ret.with_ids) :
                LowerCase(ret.with_ids[i][2]) # LowerCase("Demo User")
        /\ \A i \in 1..Len(ret.daily) :
                LowerCase(ret.daily[i][1]) # LowerCase("Demo User")
        /\ \A i \in 1..Len(ret.lifetime) :
                LowerCase(ret.lifetime[i][1]) # LowerCase("Demo User")

\* C21: for every store and limit, get_daily_leaderboard returns the rows of
\* get_daily_leaderboard_with_ids without their user id: the same names and
\* scores in the same order, and as many of them.
C21_DisplayIsDiffedBoard ==
    ret.op = "boards" =>
        /\ Len(ret.daily) = Len(ret.with_ids)
        /\ \A i \in 1..Len(ret.with_ids) :
                ret.daily[i] = <<ret.with_ids[i][2], ret.with_ids[i][3]>>

C21_Witness ==
    /\ ret.op = "boards"
    /\ ret.limit = 2
    /\ Len(ret.with_ids) = 2
    /\ Len(ret.daily) = 2
    /\ ret.with_ids[1][3] = ret.with_ids[2][3]
    /\ \E u \in Users : users[u].first_name = "Demo User" /\ users[u].username = NULL
                            /\ daily[u] = MaxScore

\* C22: however the statements of concurrent update_solved_questions and
\* reset_daily_stats calls interleave, no update is lost: the counts in the
\* file are those obtained by making the calls one at a time, in the order in
\* which they returned.
C22_NoLostUpdate ==
    ret.op = "txn" =>
        /\ daily = ret.db.daily
        /\ lifetime = ret.db.lifetime
        /\ reset_log = ret.db.reset_log

C22_Witness ==
    /\ ret.op = "txn"
    /\ ret.raced
    /\ \A t \in DOMAIN tasks : tasks[t].pc = "idle"
    /\ failed = 0
    /\ reset_log = 1
    /\ daily[1] = 1
    /\ lifetime[1] = MaxScore

\* C23: when update_solved_questions fails at any statement because the store
\* fails, it returns False and nothing is committed: the daily and the
\* lifetime counts in the file are those before the call.
C23_FailureCommitsNothing ==
    [][(ret.op = "txn" /\ failed' # failed) =>
            /\ ~ret'.last.ok
            /\ daily' = daily
            /\ lifetime' = lifetime
            /\ reset_log' = reset_log]_vars

C23_Witness ==
    /\ ret.op = "txn"
    /\ failed = 1
    /\ ~ret.last.ok
    /\ ret.last.op = "delta"
    /\ ret.last.pc = "floor"
    /\ ret.last.user_id = 1
    /\ daily[1] = 0
    /\ lifetime[1] = 0

\* C24: the rights table only grows and its rows keep their user_id,
\* outranked_user_id, old_position and new_position through
\* store_special_message_right, get_unused_message_right,
\* get_message_right_details and use_message_right; the only field that
\* changes is used, from FALSE to TRUE.
LedgerStep ==
    /\ Len(rights') >= Len(rights)
    /\ \A i \in 1..Len(rights) :
        /\ rights'[i].user_id = rights[i].user_id
        /\ rights'[i].outranked_user_id = rights[i].outranked_user_id
        /\ rights'[i].old_position = rights[i].old_position
        /\ rights'[i].new_position = rights[i].new_position
        /\ rights'[i].created_at = rights[i].created_at
        /\ rights[i].used => rights'[i].used

C24_LedgerAppendOnly == [][LedgerStep]_vars

C24_Witness ==
    /\ Len(rights) = MaxRights
    /\ rights[1].used
    /\ use_ok[1] = 1
    /\ rights[MaxRights].used
    /\ use_ok[MaxRights] = 1
    /\ rights[1].user_id # rights[MaxRights].user_id
    /\ rights[1].created_at < rights[MaxRights].created_at

\* C25: a message that is not a command, from a user who has no unused
\* right, sends nothing and changes nothing: the users and their counts, the
\* rights table, last_leaderboard and chat_id are as before.
C25_NoRightNoEffect ==
    [][(ret'.op = "message" /\ ret'.plain
            /\ UnusedRights(rights, ret'.user_id) = {}) =>
        /\ outbox' = <<>>
        /\ ret'.right_id = NoRight
        /\ UNCHANGED <<users, daily, lifetime, reset_log, rights,
                       last_leaderboard, chat_id, tasks, sends, use_ok>>]_vars

C25_Witness ==
    /\ ret.op = "message"
    /\ ret.plain
    /\ ret.right_id = NoRight
    /\ outbox = <<>>
    /\ chat_id # NoChat
    /\ UnusedRights(rights, ret.user_id) = {}
    /\ \E i, j \in 1..Len(rights) :
        /\ rights[i].user_id = ret.user_id
        /\ rights[i].used
        /\ rights[j].user_id # ret.user_id
        /\ ~rights[j].used

\* C26: handle_special_message marks a right used only after the broadcast
\* made for it was sent. A right is never used without a broadcast sent for
\* it, and when the send is refused the right stays unused and is what
\* get_unused_message_right returns for that user next.
ConsumedWasSent ==
    \A i \in 1..Len(rights) : rights[i].used => sends[i] >= 1

RefusedSendKeepsRight ==
    (ret'.op = "message" /\ ret'.failed) =>
        /\ outbox' = <<>>
        /\ rights' = rights
        /\ sends' = sends
        /\ ~rights'[ret'.right_id].used
        /\ get_unused_message_right(DB, ret'.user_id) = ret'.right_id

C26_ConsumeAfterSend == [](ConsumedWasSent) /\ [][RefusedSendKeepsRight]_vars

C26_Witness ==
    /\ ret.op = "message"
    /\ ret.failed
    /\ chat_id # NoChat
    /\ ~rights[ret.right_id].used
    /\ sends[ret.right_id] = 0
    /\ \E i \in 1..Len(rights) : rights[i].used /\ sends[i] = 1 /\ use_ok[i] = 1

\* C27: /reset_daily leaves last_leaderboard (and chat_id) as it was, so the
\* leaderboard the next /solved is compared with is the one seen before the
\* reset, not an empty one.
ResetKeepsSnapshot ==
    reset_log' # reset_log =>
        /\ \A u \in DOMAIN daily' : daily'[u] = 0
        /\ last_leaderboard' = last_leaderboard
        /\ chat_id' = chat_id

C27_ResetKeepsLastLeaderboard == [][ResetKeepsSnapshot]_vars

C27_Witness ==
    /\ reset_log = 1
    /\ Len(last_leaderboard) = 2
    /\ last_leaderboard[1][3] = MaxScore
    /\ \A u \in DOMAIN daily : daily[u] = 0
    /\ get_daily_leaderboard_with_ids(DB, LeaderboardLimit) = <<>>

\* C28: when last_leaderboard is empty at a score update that changes a
\* counter, no overtake is sent and no right is stored, and last_leaderboard
\* becomes the daily leaderboard with ids of the updated store.
EmptySnapshotUpdate ==
    (last_leaderboard = <<>> /\ ScoreChanged) =>
        /\ outbox' = <<>>
        /\ diff' = NoDiff
        /\ rights' = rights
        /\ last_leaderboard' =
            get_daily_leaderboard_with_ids(
                [users |-> users', daily |-> daily', lifetime |-> lifetime',
                 reset_log |-> reset_log', rights |-> rights'],
                LeaderboardLimit)

C28_EmptySnapshotReplaced == [][EmptySnapshotUpdate]_vars

\* C29: no broadcast, overtake or special message, is handed to the
\* dispatcher while chat_id is unset, as it is after a restart that finds
\* unused rights in the database.
C29_NoDispatchWithoutChat ==
    /\ \A i \in 1..Len(outbox) :
            outbox[i].kind \in {"overtake", "special"} => outbox[i].chat # NoChat
    /\ ret.op = "message" =>
            \A i \in 1..Len(ret.dispatched) : ret.dispatched[i] # NoChat

\* C30: in every reachable state of the store, no user's questions_solved of
\* the day exceeds that user's total_questions.
C30_DailyAtMostLifetime ==
    \A u \in Users : CountOf(daily, u) <= CountOf(lifetime, u)

C30_Witness ==
    /\ ret.op = "store"
    /\ Len(ret.log) = MaxCalls
    /\ ret.log[MaxCalls].call = "delta"
    /\ ret.log[MaxCalls].ok
    /\ ret.log[MaxCalls].delta < 0
    /\ reset_log = 1
    /\ \E u \in Users : /\ u = ret.log[MaxCalls].user_id
                        /\ daily[u] = 0
                        /\ lifetime[u] = 1

\* C31: every row of special_message_rights has an outranked_user_id other
\* than its user_id, and its user_id is the user whose /solved was being
\* handled when the row was stored.
GranteeIsNotDisplaced ==
    \A i \in 1..Len(rights) : rights[i].user_id # rights[i].outranked_user_id

GrantStep ==
    Len(rights') = Len(rights) + 1 =>
        LET r == rights'[Len(rights')]
        IN  /\ r.user_id # r.outranked_user_id
            /\ diff'.user_id = r.user_id
            /\ Len(outbox') = 1
            /\ outbox'[1].kind = "overtake"
            /\ outbox'[1].user_id = r.user_id
            /\ outbox'[1].outranked_id = r.outranked_user_id
            /\ \A u \in Users :
                    CountOf(daily', u) # CountOf(daily, u) => u = r.user_id

C31_GranteeIsActingUser == [](GranteeIsNotDisplaced) /\ [][GrantStep]_vars

C31_Witness ==
    /\ Len(rights) = 1
    /\ diff.user_id = rights[1].user_id
    /\ Len(outbox) = 1
    /\ outbox[1].kind = "overtake"
    /\ outbox[1].outranked_id = rights[1].outranked_user_id
    /\ rights[1].outranked_user_id # rights[1].user_id
    /\ daily[rights[1].user_id] > daily[rights[1].outranked_user_id]
    /\ daily[rights[1].outranked_user_id] > 0

\* C32: a plain message of user u is broadcast against, and uses up, only a
\* right whose user_id is u; the messages of other users leave the used flag
\* of u's rights alone and send no special message for them.
OwnRightOnly ==
    /\ (ret'.op = "message" /\ ret'.right_id # NoRight) =>
            rights[ret'.right_id].user_id = ret'.user_id
    /\ (ret'.op = "message") =>
            \A i \in 1..Len(outbox') :
                outbox'[i].kind = "special" =>
                    rights[outbox'[i].right_id].user_id = ret'.user_id
    /\ \A i \in 1..Len(rights) :
            rights'[i].used # rights[i].used =>
                \E t \in 1..NumTasks :
                    /\ tasks[t].pc = "sent"
                    /\ tasks'[t].pc = "idle"
                    /\ tasks[t].user_id = rights[i].user_id

C32_OnlyGranteeConsumes == [][OwnRightOnly]_vars

C32_Witness ==
    /\ ret.op = "message"
    /\ ret.right_id # NoRight
    /\ ~ret.failed
    /\ Len(outbox) = 1
    /\ outbox[1].kind = "special"
    /\ outbox[1].right_id = ret.right_id
    /\ rights[ret.right_id].user_id = ret.user_id
    /\ \E j \in 1..Len(rights) :
        /\ rights[j].user_id # ret.user_id
        /\ ~rights[j].used
        /\ rights[j].created_at > rights[ret.right_id].created_at

\* C33: register_user on a user who is registered already writes only that
\* user's name fields: the user's questions_solved and total_questions, the
\* other users, the rights and the reset log are as before; and no call ever
\* removes a user.
ReRegisterFrame ==
    (Called /\ TheCall.call = "register" /\ TheCall.user_id \in DOMAIN users) =>
        /\ TheCall.ok
        /\ DOMAIN users' = DOMAIN users
        /\ users'[TheCall.user_id].first_name = TheCall.name
        /\ \A o \in DOMAIN users \ {TheCall.user_id} : users'[o] = users[o]
        /\ daily' = daily
        /\ lifetime' = lifetime
        /\ rights' = rights
        /\ reset_log' = reset_log

UsersStay == DOMAIN users \subseteq DOMAIN users'

C33_ReRegisterRefreshesNames == [][ReRegisterFrame /\ UsersStay]_vars

C33_Witness ==
    /\ ret.op = "store"
    /\ Len(ret.log) = 3
    /\ ret.log[1].call = "register"
    /\ ret.log[1].name = "Ann"
    /\ ret.log[2].call = "delta"
    /\ ret.log[2].user_id = ret.log[1].user_id
    /\ ret.log[2].delta = MaxDelta
    /\ ret.log[3].call = "register"
    /\ ret.log[3].user_id = ret.log[1].user_id
    /\ ret.log[3].name = "Demo User"
    /\ users[ret.log[1].user_id].first_name = "Demo User"
    /\ daily[ret.log[1].user_id] = MaxDelta
    /\ lifetime[ret.log[1].user_id] = MaxDelta

====
